---- MODULE Spec2Model ----
(***************************************************************************)
(* A model of the CRATE repository: the corpus script (data.py) and the    *)
(* model definition (crate.py): FeedForward, Attention, PreNorm,           *)
(* Transformer and CRATE.  Each component has its own variables and its    *)
(* own specification; a specification leaves the other components idle.    *)
(***************************************************************************)
EXTENDS Integers, Sequences, FiniteSets, TLC

VARIABLES
  \* data.py
  wikiText,   \* wiki["text"]: the dataset's text records, in order
  loopIdx,    \* number of records the for loop has consumed
  file,       \* the arguments of the file.write calls made so far, in order
  \* FeedForward
  ffArgs,     \* the arguments FeedForward.__init__ received
  ffSelf,     \* the FeedForward object: weight, step_size, lambd
  ffX,        \* the argument of the last forward call
  ffOut,      \* the value the last forward call returned
  ffPc,       \* "idle" | "built" | "returned"
  \* Transformer
  tfSelf,     \* the Transformer object: its layers
  tfArgs,     \* the arguments of the forward call: x, seg, mask
  tfX,        \* local x of Transformer.forward
  tfGrad,     \* local grad_x of Transformer.forward
  tfIdx,      \* index of the layer the for loop is at
  tfLog,      \* the calls PreNorm.forward has made to its inner blocks, in order
  tfRet,      \* the value forward returned
  tfPc,       \* "idle" | "call" | "attn" | "ff" | "return" | "done" | "raised"
  \* CRATE.forward
  fwSelf,     \* the CRATE object's configuration: pool, emb_dropout, transformer
  fwHeap,     \* the storage of each tensor: parameters, the input, temporaries
  fwX,        \* local x: the storage it refers to
  fwCls,      \* local cls_tokens: the storage it refers to
  fwErr,      \* the exception forward raised
  fwPc,       \* "idle" | "call" | "repeat" | "cat" | "add" | "dropout"
              \* | "transformer" | "returned" | "raised"
  \* Attention
  atSelf,     \* the Attention object: heads, dropout rate, training flag, to_out
  atIn,       \* the call's inputs: mask, and what softmax and dropout draw
  atPost,     \* local attn after line 69 (softmax, then dropout)
  atAttn,     \* local attn at line 74, the matrix that forms the output
  atRet,      \* the value forward returned
  atPc,       \* "idle" | "call" | "returned"
  \* the script  model = CRATE(<crArgs>); logits = model(img)
  crArgs,     \* the keyword arguments of CRATE, and the batch size of img
  crLocals,   \* locals of CRATE.__init__
  crAttrs,    \* the attributes __init__ has set on self, in order
  crErr,      \* the exception that ended the script: its type and line
  crLogits,   \* the shape of the logits the script obtained
  crPc        \* "idle" | "new" | "assert_div" | "assert_pool" | "patch" | "pos"
              \* | "cls" | "dropout" | "transformer" | "constructed" | "raised"

corpusVars == <<wikiText, loopIdx, file>>
ffVars == <<ffArgs, ffSelf, ffX, ffOut, ffPc>>
tfVars == <<tfSelf, tfArgs, tfX, tfGrad, tfIdx, tfLog, tfRet, tfPc>>

crVars == <<crArgs, crLocals, crAttrs, crErr, crLogits, crPc>>

atVars == <<atSelf, atIn, atPost, atAttn, atRet, atPc>>

fwVars == <<fwSelf, fwHeap, fwX, fwCls, fwErr, fwPc>>

vars == <<corpusVars, ffVars, tfVars, crVars, atVars, fwVars>>

\* What each component's actions leave alone: the other components.
notCorpus == <<ffVars, tfVars, crVars, atVars, fwVars>>
notFF == <<corpusVars, tfVars, crVars, atVars, fwVars>>
notTf == <<corpusVars, ffVars, crVars, atVars, fwVars>>
notCr == <<corpusVars, ffVars, tfVars, atVars, fwVars>>
notAt == <<corpusVars, ffVars, tfVars, crVars, fwVars>>
notFw == <<corpusVars, ffVars, tfVars, crVars, atVars>>

(***************************************************************************)
(* data.py: the corpus script.                                             *)
(***************************************************************************)
\* Bounds of the dataset: at most MaxRecords records, MaxChars characters in all.
MaxRecords == 2
MaxChars == 6

Chars == {" ", "="}
NL == <<"\n">>

StrOfLen(n) == [1..n -> Chars]
Lines(maxlen) == UNION {StrOfLen(n) : n \in 0..maxlen}

RECURSIVE Datasets(_, _)
Datasets(k, budget) ==
  IF k = 0 THEN {<<>>}
  ELSE UNION {{<<l>> \o rest : rest \in Datasets(k - 1, budget - Len(l))} : l \in Lines(budget)}

\* The pattern " = " matches s at position p.
MatchAt(s, p) ==
  /\ p >= 1
  /\ p + 2 <= Len(s)
  /\ s[p] = " " /\ s[p + 1] = "=" /\ s[p + 2] = " "

\* Variant: a scan that resumes one character after the start of a match, and
\* so also reports matches that overlap.
RECURSIVE FindallFromOverlapping(_, _)
FindallFromOverlapping(s, p) ==
  IF p + 2 > Len(s) THEN <<>>
  ELSE IF MatchAt(s, p) THEN <<p>> \o FindallFromOverlapping(s, p + 1)
  ELSE FindallFromOverlapping(s, p + 1)

\* re.findall(" = ", i) scanning from position p: the leftmost match, then the
\* scan resumes after the end of that match (matches never overlap).
RECURSIVE FindallScan(_, _)
FindallScan(s, p) ==
  IF p + 2 > Len(s) THEN <<>>
  ELSE IF MatchAt(s, p) THEN <<p>> \o FindallScan(s, p + 3)
  ELSE FindallScan(s, p + 1)

FindallFrom(s, p) == FindallScan(s, p)

findall(s) == FindallFrom(s, 1)

\* The loop body: what file.write receives for record i.
Written(i) == IF Len(findall(i)) > 1 THEN NL ELSE i

CorpusIdle == wikiText = <<>> /\ loopIdx = 0 /\ file = <<>>

CorpusInit ==
  /\ wikiText \in UNION {Datasets(k, MaxChars) : k \in 1..MaxRecords}
  /\ loopIdx = 0
  /\ file = <<>>

\* One iteration of `for i in wiki["text"]`.
LoopBody ==
  /\ loopIdx < Len(wikiText)
  /\ loopIdx' = loopIdx + 1
  /\ file' = Append(file, Written(wikiText[loopIdx + 1]))
  /\ UNCHANGED <<wikiText, notCorpus>>

CorpusNext == LoopBody

\* Occurrences of " = " at any positions, overlapping ones included.
Occurrences(s) == {p \in 1..Len(s) : MatchAt(s, p)}
\* Two occurrences that share no character.
TwoDisjoint(s) == \E p, q \in Occurrences(s) : q >= p + 3

\* C6 as stated: one item per record, in order; a line with two or more
\* occurrences of " = ", however positioned, becomes a newline, any other line
\* is written unchanged.
C6_AnyTwoOccurrencesReplaced ==
  /\ Len(file) = loopIdx
  /\ \A k \in 1..Len(file) :
       file[k] = IF Cardinality(Occurrences(wikiText[k])) >= 2 THEN NL ELSE wikiText[k]

\* C6 amended: one item per record, in order; a line with two or more
\* occurrences of " = " that do not overlap becomes a newline, any other line
\* (one with overlapping occurrences only included) is written unchanged.
C6_DisjointOccurrencesReplaced ==
  /\ Len(file) = loopIdx
  /\ \A k \in 1..Len(file) :
       file[k] = IF TwoDisjoint(wikiText[k]) THEN NL ELSE wikiText[k]

C6_Witness ==
  /\ loopIdx = Len(wikiText)
  /\ Len(file) = 2
  /\ TwoDisjoint(wikiText[1]) /\ file[1] = NL
  /\ wikiText[2] = <<>> /\ file[2] = <<>>


(***************************************************************************)
(* Numbers.  Tensor elements are fixed-point numbers in hundredths: Unit   *)
(* stands for 1.0.  On the inputs drawn below every product is exact.      *)
(***************************************************************************)
Unit == 10 * 10
Mul(a, b) == (a * b) \div Unit

RECURSIVE SumTo(_, _)
\* f[1] + ... + f[n]
SumTo(f, n) == IF n = 0 THEN 0 ELSE f[n] + SumTo(f, n - 1)

(***************************************************************************)
(* FeedForward (crate.py 23-42).                                           *)
(***************************************************************************)
\* dim of the block under check (a bound).
Dim == 2

XVals == {-Unit, 0, Unit}
WVals == {0, Unit}
StepSizes == {0, Unit \div 10, Unit \div 2}
DropoutRates == {0, Unit \div 2}

Vectors(n) == [1..n -> XVals]
Matrices(n) == [1..n -> [1..n -> WVals]]

\* F.linear(x, W, bias=None) for a vector x: y[j] = sum_k x[k] * W[j][k].
linear(x, W) ==
  [j \in DOMAIN W |-> SumTo([k \in DOMAIN x |-> Mul(x[k], W[j][k])], Len(x))]

\* Tensor.t() of a square matrix.
t(W) == [j \in DOMAIN W |-> [k \in DOMAIN W |-> W[k][j]]]

relu(v) == [j \in DOMAIN v |-> IF v[j] > 0 THEN v[j] ELSE 0]

\* FeedForward.__init__: w is the matrix kaiming_uniform_ leaves in weight.
FeedForward_init(dim, hidden_dim, dropout, step_size, w) ==
  [weight |-> w, step_size |-> step_size, lambd |-> Unit \div 10]

\* Variant: grad_2 computed with the weight instead of its transpose.
FeedForward_forward_noTranspose(self, x) ==
  LET x1 == linear(x, self.weight)
      grad_1 == linear(x1, t(self.weight))
      grad_2 == linear(x, self.weight)
      grad_update == [j \in DOMAIN x |->
          Mul(self.step_size, grad_2[j] - grad_1[j]) - Mul(self.step_size, self.lambd)]
  IN relu([j \in DOMAIN x |-> x[j] + grad_update[j]])

\* Variant: the shrinkage term added instead of subtracted.
FeedForward_forward_plusLambd(self, x) ==
  LET x1 == linear(x, self.weight)
      grad_1 == linear(x1, t(self.weight))
      grad_2 == linear(x, t(self.weight))
      grad_update == [j \in DOMAIN x |->
          Mul(self.step_size, grad_2[j] - grad_1[j]) + Mul(self.step_size, self.lambd)]
  IN relu([j \in DOMAIN x |-> x[j] + grad_update[j]])

\* FeedForward.forward.
FeedForward_forward(self, x) ==
  LET x1 == linear(x, self.weight)
      grad_1 == linear(x1, t(self.weight))
      grad_2 == linear(x, t(self.weight))
      grad_update == [j \in DOMAIN x |->
          Mul(self.step_size, grad_2[j] - grad_1[j]) - Mul(self.step_size, self.lambd)]
      output == relu([j \in DOMAIN x |-> x[j] + grad_update[j]])
  IN output

FFIdle ==
  /\ ffArgs = <<>> /\ ffSelf = <<>> /\ ffX = <<>> /\ ffOut = <<>> /\ ffPc = "idle"

\* FeedForward(dim, hidden_dim, dropout, step_size) has been constructed.
FFInit ==
  /\ ffArgs \in [dim : {Dim}, hidden_dim : {Dim, 2 * Dim},
                 dropout : DropoutRates, step_size : StepSizes]
  /\ \E w \in Matrices(Dim) :
       ffSelf = FeedForward_init(ffArgs.dim, ffArgs.hidden_dim, ffArgs.dropout,
                                 ffArgs.step_size, w)
  /\ ffX = <<>> /\ ffOut = <<>> /\ ffPc = "built"

\* A call self(x).
FFCall ==
  /\ ffPc = "built"
  /\ \E x \in Vectors(Dim) :
       /\ ffX' = x
       /\ ffOut' = FeedForward_forward(ffSelf, x)
  /\ ffPc' = "returned"
  /\ UNCHANGED <<ffArgs, ffSelf, notFF>>

FFNext == FFCall

ZeroMatrix(n) == [j \in 1..n |-> [k \in 1..n |-> 0]]

\* C5: with the zero matrix as dictionary, forward returns
\* ReLU(x - step_size * lambd) elementwise, with lambd = 0.1.
C5_ZeroDictionary ==
  (ffPc = "returned" /\ ffSelf.weight = ZeroMatrix(Dim)) =>
     \A j \in 1..Dim :
        LET v == ffX[j] - (ffArgs.step_size * (Unit \div 10)) \div Unit
        IN ffOut[j] = IF v > 0 THEN v ELSE 0

C5_Witness ==
  /\ ffPc = "returned" /\ ffSelf.weight = ZeroMatrix(Dim)
  /\ ffArgs.step_size = Unit \div 2
  /\ ffX[1] = Unit /\ ffOut[1] = Unit - Unit \div 20
  /\ ffX[2] = 0 /\ ffOut[2] = 0

\* The row-vector products of C9: x1 = x.D^T, grad_1 = x1.D, grad_2 = x.D.
C9_x1(x, D) == [j \in 1..Dim |-> SumTo([k \in 1..Dim |-> (x[k] * D[j][k]) \div Unit], Dim)]
C9_xD(x, D) == [j \in 1..Dim |-> SumTo([k \in 1..Dim |-> (x[k] * D[k][j]) \div Unit], Dim)]
C9_update(x, D, step) ==
  [j \in 1..Dim |->
     (step * (C9_xD(x, D)[j] - C9_xD(C9_x1(x, D), D)[j])) \div Unit
       - (step * (Unit \div 10)) \div Unit]

\* C9: forward returns ReLU(x + update), update = step_size*(grad_2 - grad_1)
\* - step_size*lambd, with lambd = 0.1 and the step_size the constructor was
\* given, whatever `dropout` and `hidden_dim` it was given; no element of the
\* output is negative.
C9_ForwardFormula ==
  ffPc = "returned" =>
     \A j \in 1..Dim :
        LET v == ffX[j] + C9_update(ffX, ffSelf.weight, ffArgs.step_size)[j]
        IN /\ ffOut[j] = (IF v > 0 THEN v ELSE 0)
           /\ ffOut[j] >= 0

C9_Witness ==
  /\ ffPc = "returned"
  /\ ffSelf.weight # t(ffSelf.weight)
  /\ ffArgs.dropout # 0 /\ ffArgs.hidden_dim # Dim /\ ffArgs.step_size = Unit \div 2
  /\ C9_xD(ffX, ffSelf.weight) # C9_x1(ffX, ffSelf.weight)
  /\ \E j \in 1..Dim : ffOut[j] > 0 /\ ffOut[j] # ffX[j]
  /\ \E j \in 1..Dim : ffOut[j] = 0 /\ ffX[j] # 0

(***************************************************************************)
(* Python calls.  A signature lists the parameters after self, how many of *)
(* the last ones have defaults, and whether **kwargs is accepted.  A call  *)
(* with npos positional arguments and the keywords kws binds, or raises    *)
(* TypeError.                                                              *)
(***************************************************************************)
Sig(params, ndefaults, varkw) ==
  [params |-> params, ndefaults |-> ndefaults, varkw |-> varkw]

Binds(sig, npos, kws) ==
  /\ npos <= Len(sig.params)
  /\ \A k \in kws :
       \/ sig.varkw
       \/ \E i \in (npos + 1)..Len(sig.params) : sig.params[i] = k
  /\ \A i \in (npos + 1)..(Len(sig.params) - sig.ndefaults) : sig.params[i] \in kws

PreNorm_forward_sig == Sig(<<"x", "mask">>, 1, TRUE)           \* line 17
FeedForward_forward_sig == Sig(<<"x">>, 0, FALSE)              \* line 32
Attention_forward_sig == Sig(<<"x", "mask">>, 0, FALSE)        \* line 63
Transformer_init_sig == Sig(<<"cfg", "ista">>, 1, FALSE)       \* line 101
Transformer_forward_sig == Sig(<<"x", "seg", "mask">>, 0, FALSE) \* line 119

forward_sig(cls) ==
  CASE cls = "Attention" -> Attention_forward_sig
    [] cls = "FeedForward" -> FeedForward_forward_sig
    [] cls = "PreNorm" -> PreNorm_forward_sig
    [] cls = "Transformer" -> Transformer_forward_sig

(***************************************************************************)
(* Tensors of the layer stack are terms: the operation that made them, the *)
(* layer whose parameters it used, and its operands.                       *)
(***************************************************************************)
T(op, at, args) == [op |-> op, at |-> at, args |-> args]
None == T("None", 0, <<>>)
Ok(v) == [ok |-> TRUE, val |-> v, err |-> ""]
Raise(e) == [ok |-> FALSE, val |-> None, err |-> e]

\* module(*args): nn.Module.__call__ runs forward(*args) of the module's class.
CallModule(fn, args) ==
  IF Binds(forward_sig(fn.cls), Len(args), {})
  THEN Ok(T(fn.cls, fn.layer, args))
  ELSE Raise("TypeError")

\* PreNorm.__init__(dim, fn); layer tells the LayerNorms of the stack apart.
PreNorm_init(dim, fn) == [cls |-> "PreNorm", norm |-> fn, fn |-> fn]

\* self.norm(x)
norm(self, x) == T("LayerNorm:" \o self.norm.cls, self.norm.layer, <<x>>)

\* PreNorm.forward(x, mask=None) (no further keywords are passed in this code).
PreNorm_forward(self, x, mask) ==
  IF mask # None
  THEN CallModule(self.fn, <<norm(self, x), mask>>)
  ELSE CallModule(self.fn, <<norm(self, x)>>)

\* What PreNorm.forward hands to its inner block.
InnerArgs(self, x, mask) ==
  IF mask # None THEN <<norm(self, x), mask>> ELSE <<norm(self, x)>>

\* x + y
add(x, y) == T("add", 0, <<x, y>>)

\* Embeddings.forward(x, seg)
Embeddings_forward(x, seg) == T("Embeddings", 0, <<x, seg>>)

\* Transformer.__init__(cfg, ista): cfg.n_layers pairs, each with blocks of its own.
Transformer_init(cfg, ista) ==
  [cls |-> "Transformer",
   layers |-> [l \in 1..cfg.n_layers |->
      <<PreNorm_init(cfg.dim, [cls |-> "Attention", layer |-> l]),
        PreNorm_init(cfg.dim, [cls |-> "FeedForward", layer |-> l])>>]]

\* Bound: cfg.n_layers is at most MaxDepth.
MaxDepth == 2

TokenIds == {T("ids", 1, <<>>), T("ids", 2, <<>>)}
Segments == {T("seg", 1, <<>>), T("seg", 2, <<>>)}
Masks == {None, T("mask", 1, <<>>), T("mask", 2, <<>>)}

TfIdle ==
  /\ tfSelf = <<>> /\ tfArgs = <<>> /\ tfX = None /\ tfGrad = None
  /\ tfIdx = 0 /\ tfLog = <<>> /\ tfRet = None /\ tfPc = "idle"

\* A Transformer has been constructed and forward(x, seg, mask) is called.
TfInit ==
  /\ \E n \in 0..MaxDepth : tfSelf = Transformer_init([n_layers |-> n, dim |-> Dim], Unit \div 10)
  /\ tfArgs \in [x : TokenIds, seg : Segments, mask : Masks]
  /\ tfX = None /\ tfGrad = None
  /\ tfIdx = 0 /\ tfLog = <<>> /\ tfRet = None /\ tfPc = "call"

LoopHead(i) == IF i <= Len(tfSelf.layers) THEN "attn" ELSE "return"

\* x = self.embed(x, seg); depth = 0; the for loop starts.
TfEmbed ==
  /\ tfPc = "call"
  /\ tfX' = Embeddings_forward(tfArgs.x, tfArgs.seg)
  /\ tfIdx' = 1
  /\ tfPc' = LoopHead(1)
  /\ UNCHANGED <<tfSelf, tfArgs, tfGrad, tfLog, tfRet, notTf>>

\* grad_x = attn(x, mask) + x
TfAttn ==
  /\ tfPc = "attn"
  /\ LET attn == tfSelf.layers[tfIdx][1]
         r == PreNorm_forward(attn, tfX, tfArgs.mask)
     IN /\ tfLog' = Append(tfLog, [fn |-> attn.fn, args |-> InnerArgs(attn, tfX, tfArgs.mask),
                                   ok |-> r.ok])
        /\ IF r.ok
           THEN tfGrad' = add(r.val, tfX) /\ tfPc' = "ff"
           ELSE tfGrad' = tfGrad /\ tfPc' = "raised"
  /\ UNCHANGED <<tfSelf, tfArgs, tfX, tfIdx, tfRet, notTf>>

\* x = ff(grad_x), and the loop goes on to the next pair.
TfFF ==
  /\ tfPc = "ff"
  /\ LET ff == tfSelf.layers[tfIdx][2]
         r == PreNorm_forward(ff, tfGrad, None)
     IN /\ tfLog' = Append(tfLog, [fn |-> ff.fn, args |-> InnerArgs(ff, tfGrad, None),
                                   ok |-> r.ok])
        /\ IF r.ok
           THEN tfX' = r.val /\ tfIdx' = tfIdx + 1 /\ tfPc' = LoopHead(tfIdx + 1)
           ELSE tfX' = tfX /\ tfIdx' = tfIdx /\ tfPc' = "raised"
  /\ UNCHANGED <<tfSelf, tfArgs, tfGrad, tfRet, notTf>>

\* return x
TfReturn ==
  /\ tfPc = "return"
  /\ tfRet' = tfX
  /\ tfPc' = "done"
  /\ UNCHANGED <<tfSelf, tfArgs, tfX, tfGrad, tfIdx, tfLog, notTf>>

TfNext == TfEmbed \/ TfAttn \/ TfFF \/ TfReturn

\* C7: a pre-normalized Attention block called with mask = None completes and
\* receives no mask; called with a mask it completes and receives that mask.
C7_PreNormAttentionCompletes ==
  \A k \in DOMAIN tfLog :
     tfLog[k].fn.cls = "Attention" =>
        /\ tfLog[k].ok
        /\ IF tfArgs.mask = None
           THEN Len(tfLog[k].args) = 1
           ELSE tfLog[k].args[2] = tfArgs.mask

\* The value the claim gives the stack after l layers, from x0.
RECURSIVE C8_Stack(_, _, _)
C8_Stack(l, x0, mask) ==
  IF l = 0 THEN x0
  ELSE LET x == C8_Stack(l - 1, x0, mask)
           a == [cls |-> "Attention", layer |-> l]
           f == [cls |-> "FeedForward", layer |-> l]
           r == add(T("Attention", l,
                      <<T("LayerNorm:Attention", l, <<x>>)>> \o
                        (IF mask = None THEN <<>> ELSE <<mask>>)), x)
       IN T("FeedForward", l, <<T("LayerNorm:FeedForward", l, <<r>>)>>)

\* The inner blocks in the order the claim gives: Attention 1, FeedForward 1, ...
C8_Order(depth) ==
  [k \in 1..(2 * depth) |->
     [cls |-> IF k % 2 = 1 THEN "Attention" ELSE "FeedForward", layer |-> (k + 1) \div 2]]

\* C8: every forward call runs the depth pairs in construction order, each
\* once, with r = attn(x, mask) + x and x = ff(r) (no residual), the mask going
\* to every attention and to no feed-forward, and returns the last x.
C8_AllLayersInOrder ==
  tfPc \in {"done", "raised"} =>
     /\ tfPc = "done"
     /\ [k \in DOMAIN tfLog |-> tfLog[k].fn] = C8_Order(Len(tfSelf.layers))
     /\ \A k \in DOMAIN tfLog :
          tfLog[k].fn.cls = "FeedForward" => Len(tfLog[k].args) = 1
     /\ tfRet = C8_Stack(Len(tfSelf.layers),
                         Embeddings_forward(tfArgs.x, tfArgs.seg), tfArgs.mask)

\* The same, for the calls that are given a mask: these return.
StackInOrderWhenMasked ==
  (tfPc \in {"done", "raised"} /\ tfArgs.mask # None) =>
     /\ tfPc = "done"
     /\ [k \in DOMAIN tfLog |-> tfLog[k].fn] = C8_Order(Len(tfSelf.layers))
     /\ \A k \in DOMAIN tfLog :
          tfLog[k].fn.cls = "FeedForward" => Len(tfLog[k].args) = 1
     /\ tfRet = C8_Stack(Len(tfSelf.layers),
                         Embeddings_forward(tfArgs.x, tfArgs.seg), tfArgs.mask)

(***************************************************************************)
(* CRATE.__init__ (crate.py 129-160), run by the script                    *)
(*     model = CRATE(<crArgs>); logits = model(img).                       *)
(* assert statements are executed (the interpreter runs without -O).       *)
(***************************************************************************)
\* Bounds: sides of the image and of a patch.
MaxSide == 4
MaxPatch == 2
MaxBatch == 2

\* A Python value that is an int or a 2-tuple of ints.
PyInt(n) == [tuple |-> FALSE, v |-> <<n>>]
PyTuple(a, b) == [tuple |-> TRUE, v |-> <<a, b>>]

\* pair(t): t if isinstance(t, tuple) else (t, t)
pair(x) == IF x.tuple THEN x.v ELSE <<x.v[1], x.v[1]>>

ImageSizes == {PyInt(n) : n \in 1..MaxSide} \cup {PyTuple(a, b) : a, b \in 1..MaxSide}
PatchSizes == {PyInt(n) : n \in 0..MaxPatch} \cup {PyTuple(a, b) : a, b \in 0..MaxPatch}
Pools == {"cls", "mean", "max"}

Exc(type, line) == [type |-> type, line |-> line]
NoExc == Exc("", 0)

CrIdle ==
  /\ crArgs = <<>> /\ crLocals = <<>> /\ crAttrs = <<>> /\ crErr = NoExc
  /\ crLogits = <<>> /\ crPc = "idle"

\* The script is about to call CRATE(...).
CrInit ==
  /\ crArgs \in [image_size : ImageSizes, patch_size : PatchSizes, pool : Pools,
                 num_classes : {3}, dim : {Dim}, depth : {MaxDepth}, heads : {1},
                 dim_head : {Dim}, channels : {3}, batch : 1..MaxBatch]
  /\ crLocals = <<>> /\ crAttrs = <<>> /\ crErr = NoExc
  /\ crLogits = <<>> /\ crPc = "new"

\* super().__init__() and the two pair() lines (131-133).
CrStart ==
  /\ crPc = "new"
  /\ crLocals' = [image_height |-> pair(crArgs.image_size)[1],
                  image_width |-> pair(crArgs.image_size)[2],
                  patch_height |-> pair(crArgs.patch_size)[1],
                  patch_width |-> pair(crArgs.patch_size)[2]]
  /\ crPc' = "assert_div"
  /\ UNCHANGED <<crArgs, crAttrs, crErr, crLogits, notCr>>

\* Whether evaluating the condition of line 135 divides by zero: `and` evaluates
\* its right operand only when the left one is true.
DivisionByZero(l) ==
  \/ l.patch_height = 0
  \/ (l.image_height % l.patch_height = 0 /\ l.patch_width = 0)

\* Variant: only the height is checked.
Divisible_heightOnly(l) == l.image_height % l.patch_height = 0

\* The condition of the assert of line 135 (evaluated when nothing divides by zero).
Divisible(l) ==
  l.image_height % l.patch_height = 0 /\ l.image_width % l.patch_width = 0

\* assert image_height % patch_height == 0 and image_width % patch_width == 0 (135)
CrAssertDivisible ==
  /\ crPc = "assert_div"
  /\ IF DivisionByZero(crLocals)
     THEN crErr' = Exc("ZeroDivisionError", 135) /\ crPc' = "raised"
     ELSE IF ~Divisible(crLocals)
     THEN crErr' = Exc("AssertionError", 135) /\ crPc' = "raised"
     ELSE crErr' = crErr /\ crPc' = "assert_pool"
  /\ UNCHANGED <<crArgs, crLocals, crAttrs, crLogits, notCr>>

\* pool in {'cls', 'mean'}
PoolOk(pool) == pool \in {"cls", "mean"}

\* num_patches, patch_dim, and the assert on pool (137-139).
CrAssertPool ==
  /\ crPc = "assert_pool"
  /\ crLocals' = [l \in DOMAIN crLocals \cup {"num_patches", "patch_dim"} |->
        CASE l = "num_patches" ->
               (crLocals.image_height \div crLocals.patch_height)
                 * (crLocals.image_width \div crLocals.patch_width)
          [] l = "patch_dim" ->
               crArgs.channels * crLocals.patch_height * crLocals.patch_width
          [] OTHER -> crLocals[l]]
  /\ IF ~PoolOk(crArgs.pool)
     THEN crErr' = Exc("AssertionError", 139) /\ crPc' = "raised"
     ELSE crErr' = crErr /\ crPc' = "patch"
  /\ UNCHANGED <<crArgs, crAttrs, crLogits, notCr>>

\* self.to_patch_embedding = nn.Sequential(...) (141-146)
CrPatchEmbedding ==
  /\ crPc = "patch"
  /\ crAttrs' = Append(crAttrs, "to_patch_embedding")
  /\ crPc' = "pos"
  /\ UNCHANGED <<crArgs, crLocals, crErr, crLogits, notCr>>

\* self.pos_embedding = nn.Parameter(...) (148)
CrPosEmbedding ==
  /\ crPc = "pos"
  /\ crAttrs' = Append(crAttrs, "pos_embedding")
  /\ crPc' = "cls"
  /\ UNCHANGED <<crArgs, crLocals, crErr, crLogits, notCr>>

\* self.cls_token = nn.Parameter(...) (149)
CrClsToken ==
  /\ crPc = "cls"
  /\ crAttrs' = Append(crAttrs, "cls_token")
  /\ crPc' = "dropout"
  /\ UNCHANGED <<crArgs, crLocals, crErr, crLogits, notCr>>

\* self.dropout = nn.Dropout(emb_dropout) (150)
CrDropout ==
  /\ crPc = "dropout"
  /\ crAttrs' = Append(crAttrs, "dropout")
  /\ crPc' = "transformer"
  /\ UNCHANGED <<crArgs, crLocals, crErr, crLogits, notCr>>

\* self.transformer = Transformer(dim, depth, heads, dim_head, dropout, ista=ista)
\* (152): five positional arguments and one keyword, bound to
\* Transformer.__init__(self, cfg, ista=0.1).  Were the call to bind, the rest
\* of __init__ (154-160) would run and the object be constructed.
CrTransformer ==
  /\ crPc = "transformer"
  /\ IF Binds(Transformer_init_sig, 5, {"ista"})
     THEN /\ crAttrs' = crAttrs \o <<"transformer", "pool", "to_latent", "mlp_head">>
          /\ crErr' = crErr
          /\ crPc' = "constructed"
     ELSE /\ crAttrs' = crAttrs
          /\ crErr' = Exc("TypeError", 152)
          /\ crPc' = "raised"
  /\ UNCHANGED <<crArgs, crLocals, crLogits, notCr>>

CrNext ==
  \/ CrStart \/ CrAssertDivisible \/ CrAssertPool \/ CrPatchEmbedding
  \/ CrPosEmbedding \/ CrClsToken \/ CrDropout \/ CrTransformer

\* The remainders the claims speak of (a remainder by 0 does not exist).
RemaindersZero ==
  LET i == pair(crArgs.image_size)
      q == pair(crArgs.patch_size)
  IN q[1] > 0 /\ q[2] > 0 /\ i[1] % q[1] = 0 /\ i[2] % q[2] = 0
SomeRemainderNonZero ==
  LET i == pair(crArgs.image_size)
      q == pair(crArgs.patch_size)
  IN (q[1] > 0 /\ i[1] % q[1] # 0) \/ (q[2] > 0 /\ i[2] % q[2] # 0)
CrEnded == crPc \in {"constructed", "raised"}

\* C1: with both remainders zero (and a recognized pool) construction yields a
\* model object; with a non-zero remainder it fails.
C1_DivisibleConstructs ==
  CrEnded =>
     /\ (RemaindersZero /\ crArgs.pool \in {"cls", "mean"}) => crPc = "constructed"
     /\ SomeRemainderNonZero => crPc = "raised"

\* C2: on a model built from a valid configuration, model(img) for a batch of
\* B images returns logits of shape (B, num_classes).
C2_ForwardReturnsLogits ==
  (CrEnded /\ RemaindersZero /\ crArgs.pool \in {"cls", "mean"}) =>
     crLogits = <<crArgs.batch, crArgs.num_classes>>

\* C3: with a non-zero remainder or an unrecognized pool, construction raises
\* at the checks, before any attribute of the model is created (so no model
\* object and no coerced value exists), and the divisibility check comes first.
C3_ChecksAbortFirst ==
  /\ (SomeRemainderNonZero \/ crArgs.pool \notin {"cls", "mean"}) =>
        /\ crAttrs = <<>>
        /\ crPc \in {"idle", "new", "assert_div", "assert_pool", "raised"}
        /\ crPc = "raised" => crErr.type \in {"AssertionError", "ZeroDivisionError"}
  /\ (crPc = "raised" /\ SomeRemainderNonZero) => crErr.line = 135
  /\ (crPc = "raised" /\ crErr.line = 139) =>
        RemaindersZero /\ crArgs.pool \notin {"cls", "mean"}
  /\ crPc \in {"assert_div", "assert_pool"} => crAttrs = <<>>

C3_Witness ==
  /\ crPc = "raised"
  /\ crArgs.image_size = PyTuple(4, 3) /\ crArgs.patch_size = PyInt(2)
  /\ crArgs.pool = "max"
  /\ crErr = Exc("AssertionError", 135)
  /\ crAttrs = <<>>

(***************************************************************************)
(* Attention (crate.py 44-77).  Attention weights are counted in quanta:   *)
(* Quantum quanta make 1.0, so a softmax row is a row of non-negative      *)
(* numbers of quanta that sum to Quantum.                                  *)
(***************************************************************************)
\* Bounds: batch size, heads, sequence length, resolution of a weight.
AttnBatch == 2
AttnHeads == 2
SeqLen == 2
Quantum == 2

\* The rows nn.Softmax(dim = -1) can return for n keys.
SoftmaxRows(n) == {r \in [1..n -> 0..Quantum] : SumTo(r, n) = Quantum}

\* Dropout rates p as fractions <<numerator, denominator>>.
AttnDropouts == {<<0, 1>>, <<1, 2>>}
\* mask = None
NoMask == <<>>
AttnMasks == [1..AttnBatch -> [1..SeqLen -> BOOLEAN]] \cup {NoMask}

\* Attention.__init__(dim, heads, dim_head, dropout); a new module is in
\* training mode until eval() is called.
Attention_init(dim, heads, dim_head, dropout) ==
  [heads |-> heads,
   scale |-> <<"** -0.5", dim_head>>,
   dropout |-> dropout,
   to_out |-> IF ~(heads = 1 /\ dim_head = dim) THEN "Linear,Dropout" ELSE "Identity"]

\* self.attend(dots): dots has shape (b, h, n, n); in the inputs drawn here
\* softmax returns the same row for every query.
attend(r, b, h, n) == [bi \in 1..b |-> [hi \in 1..h |-> [i \in 1..n |-> r]]]

\* nn.Dropout(p): the identity in eval mode or with p = 0; in training mode an
\* element is zeroed where keep is false and multiplied by 1/(1-p) elsewhere.
dropout(p, training, attn, keep) ==
  IF training /\ p[1] > 0
  THEN [bi \in DOMAIN attn |-> [hi \in DOMAIN attn[bi] |-> [i \in DOMAIN attn[bi][hi] |->
          [j \in DOMAIN attn[bi][hi][i] |->
             IF keep[j] THEN (attn[bi][hi][i][j] * p[2]) \div (p[2] - p[1]) ELSE 0]]]]
  ELSE attn

\* mask.float()
float(b) == IF b THEN 1 ELSE 0

\* Variant: the unmasked weights of a row rescaled to sum to 1.
ApplyMask_renormalized(attn, mask) ==
  IF mask # NoMask
  THEN [bi \in DOMAIN attn |-> [hi \in DOMAIN attn[bi] |-> [i \in DOMAIN attn[bi][hi] |->
          LET row == [j \in DOMAIN attn[bi][hi][i] |->
                        attn[bi][hi][i][j] * (1 - float(mask[bi][j]))]
              total == SumTo(row, Len(row))
          IN [j \in DOMAIN row |-> IF total = 0 THEN 0 ELSE (row[j] * Quantum) \div total]]]]
  ELSE attn

\* Lines 70-72: mask[:, None, None, :] broadcasts mask[b, j] over heads and queries.
ApplyMask(attn, mask) ==
  IF mask # NoMask
  THEN [bi \in DOMAIN attn |-> [hi \in DOMAIN attn[bi] |-> [i \in DOMAIN attn[bi][hi] |->
          [j \in DOMAIN attn[bi][hi][i] |->
             attn[bi][hi][i][j] * (1 - float(mask[bi][j]))]]]]
  ELSE attn

\* torch.matmul(attn, w) with w[b][h][j] a number (d = 1), then
\* rearrange 'b h n d -> b n (h d)'.
matmul_rearranged(attn, w) ==
  [bi \in DOMAIN attn |-> [i \in 1..Len(w) |-> [hi \in DOMAIN attn[bi] |->
      SumTo([j \in 1..Len(w) |-> attn[bi][hi][i][j] * w[j]], Len(w))]]]

AtIdle ==
  /\ atSelf = <<>> /\ atIn = <<>> /\ atPost = <<>> /\ atAttn = <<>>
  /\ atRet = <<>> /\ atPc = "idle"

\* An Attention has been constructed and forward(x, mask) is called.
AtInit ==
  /\ \E d \in AttnDropouts : atSelf = Attention_init(AttnHeads, AttnHeads, 1, d)
  /\ atIn \in [mask : AttnMasks, softmax : SoftmaxRows(SeqLen), training : BOOLEAN,
               keep : [1..SeqLen -> BOOLEAN]]
  \* what dropout keeps matters only when dropout acts
  /\ (atSelf.dropout[1] = 0 \/ ~atIn.training) => \A j \in 1..SeqLen : atIn.keep[j]
  /\ atPost = <<>> /\ atAttn = <<>> /\ atRet = <<>> /\ atPc = "call"

\* Attention.forward(x, mask), x of shape (AttnBatch, SeqLen, dim).
AtForward ==
  /\ atPc = "call"
  /\ LET w == [j \in 1..SeqLen |-> j]
         attn1 == attend(atIn.softmax, AttnBatch, atSelf.heads, SeqLen)
         attn2 == dropout(atSelf.dropout, atIn.training, attn1, atIn.keep)
         attn3 == ApplyMask(attn2, atIn.mask)
         out == matmul_rearranged(attn3, w)
     IN /\ atPost' = attn2
        /\ atAttn' = attn3
        /\ atRet' = [to_out |-> atSelf.to_out, of |-> out]
  /\ atPc' = "returned"
  /\ UNCHANGED <<atSelf, atIn, notAt>>

AtNext == AtForward

C4_Cells == (1..AttnBatch) \X (1..AttnHeads) \X (1..SeqLen)
C4_Masked(c, j) == atIn.mask[c[1]][j]
C4_Row(a, c) == a[c[1]][c[2]][c[3]]
C4_DropoutActs == atIn.training /\ atSelf.dropout[1] > 0

\* C4 as stated: the weight at every masked column is 0, every other weight
\* keeps its post-dropout value, and a row that had weight on a masked column
\* sums to less than 1.
C4_MaskedRowBelowOne ==
  (atPc = "returned" /\ atIn.mask # NoMask) =>
     \A c \in C4_Cells :
        /\ \A j \in 1..SeqLen :
             C4_Row(atAttn, c)[j] = IF C4_Masked(c, j) THEN 0 ELSE C4_Row(atPost, c)[j]
        /\ (\E j \in 1..SeqLen : C4_Masked(c, j) /\ C4_Row(atPost, c)[j] > 0)
              => SumTo(C4_Row(atAttn, c), SeqLen) < Quantum

\* C4 amended: the weight at every masked column is 0 and every other weight
\* keeps its post-dropout value, so a row sums to the post-dropout weights of
\* its unmasked columns; that is less than 1 for a row that had weight on a
\* masked column when dropout does not act (rate 0, or eval mode).
C4_MaskedZeroNoRenormalize ==
  (atPc = "returned" /\ atIn.mask # NoMask) =>
     \A c \in C4_Cells :
        /\ \A j \in 1..SeqLen :
             C4_Row(atAttn, c)[j] = IF C4_Masked(c, j) THEN 0 ELSE C4_Row(atPost, c)[j]
        /\ SumTo(C4_Row(atAttn, c), SeqLen) =
             SumTo(C4_Row(atPost, c), SeqLen)
               - SumTo([j \in 1..SeqLen |->
                          IF C4_Masked(c, j) THEN C4_Row(atPost, c)[j] ELSE 0], SeqLen)
        /\ (~C4_DropoutActs
              /\ \E j \in 1..SeqLen : C4_Masked(c, j) /\ C4_Row(atPost, c)[j] > 0)
              => SumTo(C4_Row(atAttn, c), SeqLen) < Quantum

C4_Witness ==
  /\ atPc = "returned" /\ atIn.mask # NoMask
  /\ ~C4_DropoutActs
  /\ atIn.mask[1] = <<TRUE, FALSE>> /\ atIn.mask[2] = <<FALSE, FALSE>>
  /\ atIn.softmax = <<1, 1>>
  /\ \A h \in 1..AttnHeads, i \in 1..SeqLen :
        atAttn[1][h][i] = <<0, 1>> /\ atAttn[2][h][i] = <<1, 1>>

(***************************************************************************)
(* CRATE.forward (crate.py 162-177) on an object with the attributes       *)
(* __init__ assigns.  A tensor is a reference to a storage; fwHeap gives   *)
(* every storage's content, a matrix [batch][position] of numbers (d = 1). *)
(* An in-place operation writes the storage its target refers to.          *)
(***************************************************************************)
ElemVals == {0, 1}
NumPatches == SeqLen
Images == [1..MaxBatch -> [1..NumPatches -> ElemVals]]

\* self.to_patch_embedding(img): Rearrange, LayerNorm, Linear, LayerNorm make a
\* new tensor from img (here: one number per patch, by a fixed affine map).
to_patch_embedding(img) ==
  [b \in DOMAIN img |-> [k \in DOMAIN img[b] |-> 2 * img[b][k] + 1]]

\* What a reference reads: a view of cls_token made by repeat reads the
\* parameter once per batch element.
read(heap, ref, b) ==
  IF ref = "cls_token" THEN [bi \in 1..b |-> heap.cls_token[1]] ELSE heap[ref]

\* Variant: the concatenation written into the storage of its first operand.
cat_into_first(heap, a, c, b) ==
  [store |-> a,
   heap |-> [heap EXCEPT ![a] = [bi \in 1..b |-> read(heap, a, b)[bi] \o read(heap, c, b)[bi]]]]

\* torch.cat((a, c), dim=1): a new tensor.
cat(heap, a, c, b) ==
  [store |-> "cat",
   heap |-> [heap EXCEPT !.cat = [bi \in 1..b |-> read(heap, a, b)[bi] \o read(heap, c, b)[bi]]]]

\* x += src[:, :n]: written into the storage of x.
iadd(heap, x, src, n) ==
  [heap EXCEPT ![x] = [bi \in DOMAIN heap[x] |-> [k \in 1..n |->
                          heap[x][bi][k] + heap[src][1][k]]]]

FwIdle ==
  /\ fwSelf = <<>> /\ fwHeap = <<>> /\ fwX = "" /\ fwCls = "" /\ fwErr = NoExc
  /\ fwPc = "idle"

\* forward(img) is called on a CRATE object.
FwInit ==
  /\ fwSelf \in [pool : {"cls", "mean"}, emb_dropout : {<<0, 1>>},
                 transformer : {"Transformer"}]
  /\ fwHeap \in [img : Images,
                 cls_token : [1..1 -> [1..1 -> ElemVals]],
                 pos_embedding : [1..1 -> [1..(NumPatches + 1) -> ElemVals]],
                 patches : {<<>>}, rep : {<<>>}, cat : {<<>>}]
  /\ fwX = "" /\ fwCls = "" /\ fwErr = NoExc
  /\ fwPc = "call"

\* x = self.to_patch_embedding(img); b, n, _ = x.shape (163-164)
FwPatchEmbedding ==
  /\ fwPc = "call"
  /\ fwHeap' = [fwHeap EXCEPT !.patches = to_patch_embedding(fwHeap.img)]
  /\ fwX' = "patches"
  /\ fwPc' = "repeat"
  /\ UNCHANGED <<fwSelf, fwCls, fwErr, notFw>>

\* cls_tokens = repeat(self.cls_token, '1 1 d -> b 1 d', b = b) (166): einops
\* may return an expanded view of the parameter or a copy.
FwRepeat ==
  /\ fwPc = "repeat"
  /\ \/ /\ fwCls' = "cls_token"
        /\ fwHeap' = fwHeap
     \/ /\ fwCls' = "rep"
        /\ fwHeap' = [fwHeap EXCEPT !.rep = [b \in 1..MaxBatch |-> fwHeap.cls_token[1]]]
  /\ fwPc' = "cat"
  /\ UNCHANGED <<fwSelf, fwX, fwErr, notFw>>

\* x = torch.cat((cls_tokens, x), dim=1) (167)
FwCat ==
  /\ fwPc = "cat"
  /\ LET r == cat(fwHeap, fwCls, fwX, MaxBatch)
     IN fwHeap' = r.heap /\ fwX' = r.store
  /\ fwPc' = "add"
  /\ UNCHANGED <<fwSelf, fwCls, fwErr, notFw>>

\* x += self.pos_embedding[:, :(n + 1)] (168)
FwAddPos ==
  /\ fwPc = "add"
  /\ fwHeap' = iadd(fwHeap, fwX, "pos_embedding", NumPatches + 1)
  /\ fwPc' = "dropout"
  /\ UNCHANGED <<fwSelf, fwX, fwCls, fwErr, notFw>>

\* x = self.dropout(x) (169): with emb_dropout = 0 dropout changes nothing.
FwDropout ==
  /\ fwPc = "dropout"
  /\ fwSelf.emb_dropout[1] = 0
  /\ fwPc' = "transformer"
  /\ UNCHANGED <<fwSelf, fwHeap, fwX, fwCls, fwErr, notFw>>

\* x = self.transformer(x) (171): one positional argument, bound to
\* Transformer.forward(self, x, seg, mask).  Were the call to bind, pooling and
\* the head (173-177) would make new tensors and forward would return.
FwTransformer ==
  /\ fwPc = "transformer"
  /\ IF Binds(forward_sig(fwSelf.transformer), 1, {})
     THEN fwErr' = fwErr /\ fwPc' = "returned"
     ELSE fwErr' = Exc("TypeError", 171) /\ fwPc' = "raised"
  /\ UNCHANGED <<fwSelf, fwHeap, fwX, fwCls, notFw>>

FwNext ==
  \/ FwPatchEmbedding \/ FwRepeat \/ FwCat \/ FwAddPos \/ FwDropout \/ FwTransformer

\* C10: no step of a forward call (of CRATE, Transformer, Attention or
\* FeedForward) changes a learned parameter, a configuration value or the
\* call's input tensor.
C10_ForwardKeepsParameters ==
  [][/\ fwSelf' = fwSelf
     /\ fwHeap # <<>> =>
          /\ fwHeap'.cls_token = fwHeap.cls_token
          /\ fwHeap'.pos_embedding = fwHeap.pos_embedding
          /\ fwHeap'.img = fwHeap.img
     /\ ffSelf' = ffSelf
     /\ atSelf' = atSelf
     /\ atIn # <<>> => atIn'.mask = atIn.mask
     /\ tfSelf' = tfSelf
     /\ tfArgs' = tfArgs]_vars

\* The in-place addition has run on a sequence whose class token is a view of
\* the parameter, and changed x.
C10_Witness ==
  /\ fwPc \in {"dropout", "transformer", "raised"}
  /\ fwCls = "cls_token"
  /\ fwHeap.pos_embedding[1][1] = 1 /\ fwHeap.cls_token[1][1] = 1
  /\ fwHeap[fwX][1][1] = 2 /\ fwHeap[fwX][MaxBatch][1] = 2

(***************************************************************************)
(* Specifications.                                                         *)
(***************************************************************************)
InitCorpus == CorpusInit /\ FFIdle /\ TfIdle /\ CrIdle /\ AtIdle /\ FwIdle
SpecCorpus == InitCorpus /\ [][CorpusNext]_vars

InitFF == FFInit /\ CorpusIdle /\ TfIdle /\ CrIdle /\ AtIdle /\ FwIdle
SpecFF == InitFF /\ [][FFNext]_vars

InitStack == TfInit /\ CorpusIdle /\ FFIdle /\ CrIdle /\ AtIdle /\ FwIdle
SpecStack == InitStack /\ [][TfNext]_vars

InitCrate == CrInit /\ CorpusIdle /\ FFIdle /\ TfIdle /\ AtIdle /\ FwIdle
SpecCrate == InitCrate /\ [][CrNext]_vars

InitAttn == AtInit /\ CorpusIdle /\ FFIdle /\ TfIdle /\ CrIdle /\ FwIdle
SpecAttn == InitAttn /\ [][AtNext]_vars

InitForward == FwInit /\ CorpusIdle /\ FFIdle /\ TfIdle /\ CrIdle /\ AtIdle

\* One forward call, of any of the four classes.
InitAnyForward == InitForward \/ InitFF \/ InitAttn \/ InitStack
NextAnyForward == FwNext \/ FFNext \/ AtNext \/ TfNext
SpecForward == InitAnyForward /\ [][NextAnyForward]_vars
====
